---- MODULE Spec2Model ----
(***************************************************************************)
(* A model of the polygon image clipper: the point editor of               *)
(* useCanvasMouse, the clip (commit) path of App.handleClip and            *)
(* useImageClipping, the region collection, and the page reconstruction    *)
(* of reconstructFromClippedImages.                                        *)
(*                                                                         *)
(* JavaScript values are represented as follows.                           *)
(*   - an array is a sequence; the source's 0-based index i is position    *)
(*     i + 1 of the sequence (At, ArraySet);                               *)
(*   - an array element is a record with a kind: a point {x, y}, the       *)
(*     value undefined, or an empty slot of a sparse array;                *)
(*   - null (dragPointIndex) and the -1 of findIndex are both integers     *)
(*     below every index; a thrown TypeError is the result ThrowsTypeError;*)
(*   - NaN is a reserved integer outside the coordinate range.             *)
(***************************************************************************)
EXTENDS Integers, Sequences, FiniteSets, TLC

VARIABLES
  images,             \* usePDFConversion: the page rasters of the document
  isLoading,          \* usePDFConversion: a conversion is running
  converting,         \* the file of the running conversion, or Null
  currentImageIndex,  \* App: the displayed page
  selectedPoints,     \* useCanvasMouse: the working point list
  dragPointIndex,     \* useCanvasMouse: Null or the index being dragged
  canvasStyle,        \* useCanvasMouse: the cursor of the canvas style
  clippedImages,      \* useImageClipping: the region collection, newest first
  clipCalls,          \* clipImage promises whose source decode is pending
  stuckClips,         \* clipImage promises that can no longer settle
  reconstructions,    \* the calls of reconstructFromClippedImages
  previewUrl,         \* ReconstructedPreview: <<>> for null, or <<raster>>
  previewDeps,        \* the dependencies its effect last ran with, or <<>>
  previewLoads,       \* the calls of loadPreview that have not settled
  reconstructCalls,   \* the calls of App.handleReconstruct in flight
  downloads,          \* the files saved by link.click(), oldest first
  last                \* the handler that ran last and how it ended

docVars == <<images, isLoading, converting>>

previewVars == <<previewUrl, previewDeps, previewLoads>>

downloadVars == <<reconstructCalls, downloads>>

vars == <<images, isLoading, converting, currentImageIndex, selectedPoints,
          dragPointIndex, canvasStyle, clippedImages, clipCalls, stuckClips,
          reconstructions, previewUrl, previewDeps, previewLoads,
          reconstructCalls, downloads, last>>

----------------------------------------------------------------------------
(* Bounds of the model. *)

\* The user places at most this many points in the working list.
MaxPoints == 3
\* The editing session keeps at most this many clips, pending or stored.
MaxClips == 1
\* At most this many clips of a session fail inside their load handler.
MaxStuck == 1
\* The clip session keeps at most this many clips, pending or stored.
MaxRegions == 2

----------------------------------------------------------------------------
(* Values. *)

Null == -1
NotFound == -1
ThrowsTypeError == -2
NaN == -1000000

Point(x, y) == [kind |-> "point", x |-> x, y |-> y]
Undefined == [kind |-> "undefined", x |-> 0, y |-> 0]
Empty == [kind |-> "empty", x |-> 0, y |-> 0]

IsPoint(e) == e.kind = "point"

At(arr, i) == arr[i + 1]

\* [...arr]: a dense copy; an empty slot reads as undefined.
Spread(arr) ==
  [k \in 1..Len(arr) |-> IF arr[k].kind = "empty" THEN Undefined ELSE arr[k]]

\* arr[i] = v on a copy: an index past the end grows the array and leaves
\* empty slots between the old end and i.
ArraySet(arr, i, v) ==
  IF i < Len(arr)
  THEN [arr EXCEPT ![i + 1] = v]
  ELSE arr \o [k \in 1..(i - Len(arr)) |-> Empty] \o <<v>>

----------------------------------------------------------------------------
(* The canvas and the pointer events of the session.  The canvas is shown  *)
(* at half its backing size, so one device pixel is two source pixels.     *)

Canvas ==
  [left |-> 10, top |-> 10, clientWidth |-> 40, clientHeight |-> 40,
   width |-> 80, height |-> 80]

MouseEvent(cx, cy) == [clientX |-> cx, clientY |-> cy]

\* Device positions: they map to the source pixels (0,0), (12,16), (40,0)
\* and (12,12).  (12,16) is at distance exactly 20 from (0,0); (12,12) is
\* within 20 of both (0,0) and (12,16).
Events ==
  {MouseEvent(10, 10), MouseEvent(16, 18), MouseEvent(30, 10),
   MouseEvent(16, 16)}

\* The positions the pointer is moved to in the editing session.
MoveEvents == {MouseEvent(16, 16), MouseEvent(30, 10)}

\* Three positions that are pairwise 20 source pixels or more apart.
FarEvents == {MouseEvent(10, 10), MouseEvent(16, 18), MouseEvent(30, 10)}

\* A faulty variant of getCanvasCoordinates: one scale factor, that of the
\* width, is used for both coordinates.
getCanvasCoordinatesOneScale(event, canvas) ==
  Point(((event.clientX - canvas.left) * canvas.width)
          \div canvas.clientWidth,
        ((event.clientY - canvas.top) * canvas.width)
          \div canvas.clientWidth)

\* (clientX - rect.left) * (width / clientWidth) and the same for y with the
\* heights.  The product is formed before the division, which is exact for
\* the positions of the model: their images are whole pixels.
getCanvasCoordinates(event, canvas) ==
  Point(((event.clientX - canvas.left) * canvas.width)
          \div canvas.clientWidth,
        ((event.clientY - canvas.top) * canvas.height)
          \div canvas.clientHeight)

\* Math.sqrt(dx^2 + dy^2) < 20, decided on the squares.
HitRadius == 20

isNear(point, coords) ==
  (point.x - coords.x) * (point.x - coords.x)
    + (point.y - coords.y) * (point.y - coords.y) < HitRadius * HitRadius

\* selectedPoints.findIndex(near coords): the callback reads point.x of every
\* slot in index order, empty slots included, and throws on a slot that holds
\* no point.
RECURSIVE findIndexFrom(_, _, _)
findIndexFrom(arr, coords, i) ==
  IF i >= Len(arr) THEN NotFound
  ELSE IF ~IsPoint(At(arr, i)) THEN ThrowsTypeError
  ELSE IF isNear(At(arr, i), coords) THEN i
  ELSE findIndexFrom(arr, coords, i + 1)

findIndexNear(arr, coords) == findIndexFrom(arr, coords, 0)

\* selectedPoints.some(near coords): skips empty slots, throws on undefined,
\* stops at the first near point.  The result is "true", "false" or "throw".
RECURSIVE someNearFrom(_, _, _)
someNearFrom(arr, coords, i) ==
  IF i >= Len(arr) THEN "false"
  ELSE IF At(arr, i).kind = "empty" THEN someNearFrom(arr, coords, i + 1)
  ELSE IF At(arr, i).kind = "undefined" THEN "throw"
  ELSE IF isNear(At(arr, i), coords) THEN "true"
  ELSE someNearFrom(arr, coords, i + 1)

\* App renders the canvas, the buttons and the gallery only while no
\* conversion runs and a document is shown.
canvasMounted == ~isLoading /\ Len(images) > 0

\* getCanvasStyle(event): the cursor, or "throw".  hasEvent is FALSE for the
\* call without an event (handleMouseLeave).
getCanvasStyle(hasEvent, event) ==
  IF dragPointIndex # Null THEN "move"
  ELSE IF canvasMounted /\ hasEvent /\ Len(selectedPoints) > 0
  THEN LET near == someNearFrom(selectedPoints,
                                getCanvasCoordinates(event, Canvas), 0)
       IN  IF near = "throw" THEN "throw"
           ELSE IF near = "true" THEN "pointer" ELSE "default"
  ELSE "default"

Ran(op, result) == [op |-> op, result |-> result]

----------------------------------------------------------------------------
(* useCanvasMouse: the pointer handlers. *)

handleMouseDown(event) ==
  /\ canvasMounted
  /\ LET coords == getCanvasCoordinates(event, Canvas)
         pointIndex == findIndexNear(selectedPoints, coords)
     IN  IF pointIndex = ThrowsTypeError
         THEN /\ last' = Ran("handleMouseDown", "throw")
              /\ UNCHANGED <<selectedPoints, dragPointIndex>>
         ELSE IF pointIndex # NotFound
         THEN /\ dragPointIndex' = pointIndex
              /\ last' = Ran("handleMouseDown", "drag")
              /\ UNCHANGED selectedPoints
         ELSE /\ Len(selectedPoints) < MaxPoints
              /\ selectedPoints' = Spread(selectedPoints) \o <<coords>>
              /\ last' = Ran("handleMouseDown", "add")
              /\ UNCHANGED dragPointIndex
  /\ UNCHANGED <<docVars, previewVars, downloadVars, reconstructions,
                 currentImageIndex, canvasStyle, clippedImages,
                 clipCalls, stuckClips>>

handleMouseMove(event) ==
  /\ canvasMounted
  /\ LET coords == getCanvasCoordinates(event, Canvas)
         style == getCanvasStyle(TRUE, event)
     IN  /\ IF dragPointIndex # Null
            THEN selectedPoints' =
                   ArraySet(Spread(selectedPoints), dragPointIndex, coords)
            ELSE UNCHANGED selectedPoints
         /\ canvasStyle' = IF style = "throw" THEN canvasStyle ELSE style
         /\ last' = Ran("handleMouseMove",
                        IF style = "throw" THEN "throw"
                        ELSE IF dragPointIndex # Null THEN "drag" ELSE "idle")
  /\ UNCHANGED <<docVars, previewVars, downloadVars, reconstructions,
                 currentImageIndex, dragPointIndex, clippedImages,
                 clipCalls, stuckClips>>

\* A faulty variant of handleMouseUp: the drag index is not reset.
handleMouseUpKeepsDrag ==
  /\ canvasMounted
  /\ last' = Ran("handleMouseUp", "idle")
  /\ UNCHANGED <<docVars, previewVars, downloadVars,
                 reconstructions, currentImageIndex, selectedPoints,
                 dragPointIndex, canvasStyle, clippedImages, clipCalls,
                 stuckClips>>

handleMouseUp ==
  /\ canvasMounted
  /\ dragPointIndex' = Null
  /\ last' = Ran("handleMouseUp", "idle")
  /\ UNCHANGED <<docVars, previewVars, downloadVars, reconstructions,
                 currentImageIndex, selectedPoints, canvasStyle,
                 clippedImages, clipCalls, stuckClips>>

handleMouseLeave ==
  /\ canvasMounted
  /\ dragPointIndex' = Null
  /\ canvasStyle' = getCanvasStyle(FALSE, MouseEvent(0, 0))
  /\ last' = Ran("handleMouseLeave", "idle")
  /\ UNCHANGED <<docVars, previewVars, downloadVars, reconstructions,
                 currentImageIndex, selectedPoints, clippedImages,
                 clipCalls, stuckClips>>

\* App: the Clear Points button.
clearPoints ==
  /\ canvasMounted
  /\ selectedPoints' = <<>>
  /\ last' = Ran("clearPoints", "cleared")
  /\ UNCHANGED <<docVars, previewVars, downloadVars, reconstructions,
                 currentImageIndex, dragPointIndex, canvasStyle,
                 clippedImages, clipCalls, stuckClips>>

----------------------------------------------------------------------------
(* useImageClipping: the extraction of one region. *)

\* The raster of a page of document doc; NoImage is images[i] past the end.
\* recoded counts the lossy encodings that changed the pixels since.
PageImage(doc, page) == [doc |-> doc, page |-> page, recoded |-> 0]
NoImage == [doc |-> 0, page |-> 0, recoded |-> 0]

\* The documents whose pages hold detail that a JPEG encoding does not keep;
\* the pages of the other document are flat and come back as they were.
Detailed == {2}

\* canvas.toDataURL("image/jpeg") as the raster that decoding the data URL
\* gives back: JPEG is lossy, the pixel values of a detailed raster change.
toDataURL(pixels) ==
  IF pixels.doc \in Detailed
  THEN [pixels EXCEPT !.recoded = @ + 1]
  ELSE pixels

SeqMin(s) ==
  CHOOSE m \in {s[k] : k \in 1..Len(s)} : \A k \in 1..Len(s) : m <= s[k]
SeqMax(s) ==
  CHOOSE m \in {s[k] : k \in 1..Len(s)} : \A k \in 1..Len(s) : m >= s[k]

\* selectedPoints.map((p) => p.x) throws on an undefined slot and skips an
\* empty one; Math.min and Math.max of a spread array that has an empty slot
\* are NaN.
calculateBoundingBox(points) ==
  IF \E k \in 1..Len(points) : points[k].kind = "undefined"
  THEN [result |-> "throw", minX |-> NaN, minY |-> NaN, maxX |-> NaN,
        maxY |-> NaN, width |-> NaN, height |-> NaN]
  ELSE IF \E k \in 1..Len(points) : points[k].kind = "empty"
  THEN [result |-> "ok", minX |-> NaN, minY |-> NaN, maxX |-> NaN,
        maxY |-> NaN, width |-> NaN, height |-> NaN]
  ELSE LET xValues == [k \in 1..Len(points) |-> points[k].x]
           yValues == [k \in 1..Len(points) |-> points[k].y]
           minX == SeqMin(xValues)
           minY == SeqMin(yValues)
           maxX == SeqMax(xValues)
           maxY == SeqMax(yValues)
       IN  [result |-> "ok", minX |-> minX, minY |-> minY, maxX |-> maxX,
            maxY |-> maxY, width |-> maxX - minX, height |-> maxY - minY]

\* The data URL of the clipped canvas: "throw:context" when no 2D context is
\* to be had, "throw:TypeError" when slot 0 of the list holds no point;
\* otherwise the JPEG of the img pixels inside the polygon, or the empty
\* data URL of a canvas without area (a width or height of 0 or NaN).
createClippedImageDataURL(img, points, minX, minY, width, height, hasContext) ==
  IF ~hasContext THEN [kind |-> "throw:context", src |-> NoImage]
  ELSE IF ~IsPoint(At(points, 0))
  THEN [kind |-> "throw:TypeError", src |-> NoImage]
  ELSE IF width = NaN \/ height = NaN \/ width = 0 \/ height = 0
  THEN [kind |-> "empty", src |-> NoImage]
  ELSE [kind |-> "jpeg", src |-> toDataURL(img)]

\* What img.onload of clipImageFromPoints does: [result |-> "resolve", value]
\* or a throw out of the load handler, after which the promise has neither
\* resolved nor rejected.
clipImageFromPoints(imageUrl, points, imageIndex, hasContext) ==
  LET box == calculateBoundingBox(points)
      url == createClippedImageDataURL(imageUrl, points, box.minX, box.minY,
                                       box.width, box.height, hasContext)
      none == [imageUrl |-> url,
               coordinates |-> [minX |-> NaN, minY |-> NaN, maxX |-> NaN,
                                maxY |-> NaN, pageIndex |-> imageIndex],
               points |-> <<>>]
  IN  IF box.result = "throw"
      THEN [result |-> "throw:TypeError", value |-> none]
      ELSE IF url.kind \in {"throw:context", "throw:TypeError"}
      THEN [result |-> url.kind, value |-> none]
      ELSE [result |-> "resolve",
            value |-> [imageUrl |-> url,
                       coordinates |-> [minX |-> box.minX, minY |-> box.minY,
                                        maxX |-> box.maxX, maxY |-> box.maxY,
                                        pageIndex |-> imageIndex],
                       points |-> Spread(points)]]

\* clipImage after its await: the zIndex is the length of the clippedImages
\* that the call closed over.
withZIndex(newClippedImage, length) ==
  [imageUrl |-> newClippedImage.imageUrl,
   coordinates |-> newClippedImage.coordinates,
   points |-> newClippedImage.points,
   zIndex |-> length]

\* A faulty variant of addClippedImage: the update drops the stored regions.
addClippedImageAlone(prev, clippedImageWithZIndex) == <<clippedImageWithZIndex>>

\* A faulty variant of addClippedImage: the stored regions are renumbered.
addClippedImageRenumbering(prev, clippedImageWithZIndex) ==
  <<clippedImageWithZIndex>>
    \o [k \in 1..Len(prev) |-> [prev[k] EXCEPT !.zIndex = @ + 1]]

\* setClippedImages((prev) => [clippedImageWithZIndex, ...prev])
addClippedImage(prev, clippedImageWithZIndex) ==
  <<clippedImageWithZIndex>> \o prev

\* A faulty variant of tooFewPoints: the guard is off by one.
tooFewPointsOffByOne(points) == Len(points) < 2

\* handleClip's guard: fewer than 3 points and the handler returns.
tooFewPoints(points) == Len(points) < 3

\* clipImageFromPoints' own check, made before the image is loaded.
rejectsPoints(points) == Len(points) < 3

\* A faulty variant of pointsAfterClip: the list is cleared in a finally.
pointsAfterClipFinally(settled, points) == <<>>

\* handleClip after its await: setSelectedPoints([]) once clipImage has
\* resolved; the catch only logs the error.
pointsAfterClip(settled, points) == IF settled = "resolve" THEN <<>> ELSE points

\* App.handleClip up to the await of clipImage: the call closes over the
\* point list, the page and the collection of the current render.
handleClip ==
  /\ canvasMounted
  /\ IF tooFewPoints(selectedPoints)
     THEN /\ last' = Ran("handleClip", "return")
          /\ UNCHANGED clipCalls
     ELSE IF rejectsPoints(selectedPoints)
     THEN /\ last' = Ran("handleClip", "error:points")
          /\ UNCHANGED clipCalls
     ELSE /\ clipCalls' = Append(clipCalls,
               [selectedPoints |-> selectedPoints,
                imageUrl |-> IF currentImageIndex < Len(images)
                             THEN At(images, currentImageIndex) ELSE NoImage,
                currentImageIndex |-> currentImageIndex,
                length |-> Len(clippedImages)])
          /\ last' = Ran("handleClip", "await")
  /\ UNCHANGED <<docVars, previewVars, downloadVars, reconstructions,
                 currentImageIndex, selectedPoints, dragPointIndex,
                 canvasStyle, clippedImages, stuckClips>>

RemoveAt(s, k) == [j \in 1..(Len(s) - 1) |-> IF j < k THEN s[j] ELSE s[j + 1]]

\* img.onload of the k-th pending call, and the continuations of clipImage
\* and handleClip that run in the same turn of the event loop.
imgOnload(k, hasContext) ==
  /\ k \in 1..Len(clipCalls)
  /\ clipCalls[k].imageUrl # NoImage
  /\ LET call == clipCalls[k]
         out == clipImageFromPoints(call.imageUrl, call.selectedPoints,
                                    call.currentImageIndex, hasContext)
     IN  IF out.result = "resolve"
         THEN /\ clippedImages' =
                   addClippedImage(clippedImages,
                                   withZIndex(out.value, call.length))
              /\ selectedPoints' = pointsAfterClip("resolve", selectedPoints)
              /\ last' = Ran("handleClip", "clipped")
              /\ UNCHANGED stuckClips
         ELSE /\ stuckClips' = stuckClips + 1
              /\ last' = Ran("clipImage", out.result)
              /\ UNCHANGED <<clippedImages, selectedPoints>>
  /\ clipCalls' = RemoveAt(clipCalls, k)
  /\ UNCHANGED <<docVars, previewVars, downloadVars, reconstructions,
                 currentImageIndex, dragPointIndex, canvasStyle>>

\* img.onerror of the k-th pending call: clipImage rejects and handleClip
\* logs the error.
imgOnerror(k) ==
  /\ k \in 1..Len(clipCalls)
  /\ clipCalls' = RemoveAt(clipCalls, k)
  /\ selectedPoints' = pointsAfterClip("reject", selectedPoints)
  /\ last' = Ran("handleClip", "error:load")
  /\ UNCHANGED <<docVars, previewVars, downloadVars, reconstructions,
                 currentImageIndex, dragPointIndex, canvasStyle,
                 clippedImages, stuckClips>>

\* A faulty variant of removeClippedImage: the first card is removed
\* whatever the index.
removeClippedImageFirst(index) ==
  /\ index \in 0..(Len(clippedImages) - 1)
  /\ clippedImages' = RemoveAt(clippedImages, 1)
  /\ last' = Ran("removeClippedImage", "removed")
  /\ UNCHANGED <<docVars, previewVars, downloadVars, reconstructions,
                 currentImageIndex, selectedPoints, dragPointIndex,
                 canvasStyle, clipCalls, stuckClips>>

\* App.removeClippedImage: the Delete button of the card at index.
removeClippedImage(index) ==
  /\ index \in 0..(Len(clippedImages) - 1)
  /\ clippedImages' = RemoveAt(clippedImages, index + 1)
  /\ last' = Ran("removeClippedImage", "removed")
  /\ UNCHANGED <<docVars, previewVars, downloadVars, reconstructions,
                 currentImageIndex, selectedPoints, dragPointIndex,
                 canvasStyle, clipCalls, stuckClips>>

\* A faulty variant of clearAllClippedImages: the working points and the
\* drag go with the regions.
clearAllClippedImagesAndPoints ==
  /\ Len(clippedImages) > 0
  /\ clippedImages' = <<>>
  /\ selectedPoints' = <<>>
  /\ dragPointIndex' = Null
  /\ last' = Ran("clearAllClippedImages", "cleared")
  /\ UNCHANGED <<docVars, previewVars, downloadVars, reconstructions,
                 currentImageIndex, canvasStyle, clipCalls, stuckClips>>

\* App.clearAllClippedImages: the Clear All button of the gallery.
clearAllClippedImages ==
  /\ Len(clippedImages) > 0
  /\ clippedImages' = <<>>
  /\ last' = Ran("clearAllClippedImages", "cleared")
  /\ UNCHANGED <<docVars, previewVars, downloadVars, reconstructions,
                 currentImageIndex, selectedPoints, dragPointIndex,
                 canvasStyle, clipCalls, stuckClips>>

\* PageSelector: onPageChange = setCurrentImageIndex.  The selector is
\* rendered with the canvas.
setCurrentImageIndex(index) ==
  /\ canvasMounted
  /\ index \in 0..(Len(images) - 1)
  /\ index # currentImageIndex
  /\ currentImageIndex' = index
  /\ last' = Ran("setCurrentImageIndex", "page")
  /\ UNCHANGED <<docVars, previewVars, downloadVars, reconstructions,
                 selectedPoints, dragPointIndex, canvasStyle,
                 clippedImages, clipCalls, stuckClips>>

----------------------------------------------------------------------------
(* The editing session: a two-page document is shown. *)

Init ==
  /\ images = <<PageImage(1, 0), PageImage(1, 1)>>
  /\ isLoading = FALSE
  /\ converting = Null
  /\ currentImageIndex = 0
  /\ selectedPoints = <<>>
  /\ dragPointIndex = Null
  /\ canvasStyle = "default"
  /\ clippedImages = <<>>
  /\ clipCalls = <<>>
  /\ stuckClips = 0
  /\ reconstructions = <<>>
  /\ previewUrl = <<>>
  /\ previewDeps = <<>>
  /\ previewLoads = <<>>
  /\ reconstructCalls = <<>>
  /\ downloads = <<>>
  /\ last = Ran("mount", "idle")

\* The clips the session holds: the stored regions and the pending calls.
ClipsAlive == Len(clippedImages) + Len(clipCalls)

Next ==
  \/ \E event \in Events : handleMouseDown(event)
  \/ \E event \in MoveEvents : handleMouseMove(event)
  \/ handleMouseUp
  \/ handleMouseLeave
  \/ clearPoints
  \/ handleClip /\ ClipsAlive' <= MaxClips
  \/ \E k \in 1..MaxClips, hasContext \in BOOLEAN :
       imgOnload(k, hasContext) /\ stuckClips' <= MaxStuck
  \/ \E k \in 1..MaxClips : imgOnerror(k)
  \/ \E index \in 0..(MaxClips - 1) : removeClippedImage(index)
  \/ clearAllClippedImages

Spec == Init /\ [][Next]_vars

----------------------------------------------------------------------------
(* The clip session: the user places points at positions far from each     *)
(* other, switches pages, clips (also while an earlier clip is still       *)
(* decoding) and deletes regions.                                          *)

NextClips ==
  \/ \E event \in FarEvents : handleMouseDown(event) /\ dragPointIndex' = Null
  \/ clearPoints
  \/ handleClip /\ ClipsAlive' <= MaxRegions
  \/ \E k \in 1..MaxRegions, hasContext \in BOOLEAN :
       imgOnload(k, hasContext) /\ stuckClips' <= MaxStuck
  \/ \E k \in 1..MaxRegions : imgOnerror(k)
  \/ \E index \in 0..(MaxRegions - 1) : removeClippedImage(index)
  \/ clearAllClippedImages
  \/ \E index \in 0..1 : setCurrentImageIndex(index)

SpecClips == Init /\ [][NextClips]_vars

----------------------------------------------------------------------------
(* usePDFConversion: the upload of a document. *)

\* The files the user uploads and the number of pages of each.
Files == {1, 2}
numPages(file) == IF file = 1 THEN 2 ELSE 1

\* convertPDFToImages up to its first await: the file input is disabled
\* while a conversion runs.
convertPDFToImages(file) ==
  /\ ~isLoading
  /\ isLoading' = TRUE
  /\ converting' = file
  /\ last' = Ran("convertPDFToImages", "await")
  /\ UNCHANGED <<images, previewVars, downloadVars, reconstructions,
                 currentImageIndex, selectedPoints, dragPointIndex,
                 canvasStyle, clippedImages, clipCalls, stuckClips>>

\* The rest of convertPDFToImages: setImages with the rendered pages, or the
\* catch that logs the error; the finally resets isLoading.
conversionSettles(rendered) ==
  /\ isLoading
  /\ images' = IF rendered
               THEN [k \in 1..numPages(converting) |->
                       PageImage(converting, k - 1)]
               ELSE images
  /\ isLoading' = FALSE
  /\ converting' = Null
  /\ last' = Ran("convertPDFToImages", IF rendered THEN "images" ELSE "error")
  /\ UNCHANGED <<previewVars, downloadVars, reconstructions,
                 currentImageIndex, selectedPoints, dragPointIndex,
                 canvasStyle, clippedImages, clipCalls, stuckClips>>

----------------------------------------------------------------------------
(* reconstructFromClippedImages: the page raster rebuilt from the regions. *)
(* The raster is observed at the pixels of Probes; the content of a pixel  *)
(* is the page image it was copied from, or White.                         *)

Probes == {<<12, 4>>, <<30, 10>>, <<8, 8>>, <<2, 14>>, <<60, 60>>}

White == [doc |-> -1, page |-> -1, recoded |-> 0]

isLeft(a, b, px, py) == (b.x - a.x) * (py - a.y) - (px - a.x) * (b.y - a.y)

\* The winding number of the closed path through points around (px, py),
\* summed over the edges from the k-th on.
RECURSIVE windingFrom(_, _, _, _)
windingFrom(points, px, py, k) ==
  IF k > Len(points) THEN 0
  ELSE LET a == points[k]
           b == points[(k % Len(points)) + 1]
           turn == IF a.y <= py /\ b.y > py /\ isLeft(a, b, px, py) > 0
                   THEN 1
                   ELSE IF a.y > py /\ b.y <= py /\ isLeft(a, b, px, py) < 0
                   THEN -1
                   ELSE 0
       IN  turn + windingFrom(points, px, py, k + 1)

\* ctx.clip() of the path moveTo / lineTo / closePath (nonzero winding).
inClipPath(points, px, py) == windingFrom(points, px, py, 1) # 0

\* A faulty variant of paints: the clip path is left out and the whole
\* destination rectangle is painted.
paintsRectangle(clip, px, py) ==
  /\ clip.coordinates.minX <= px /\ px < clip.coordinates.maxX
  /\ clip.coordinates.minY <= py /\ py < clip.coordinates.maxY

\* The pixels that onload paints for clip: those of the destination
\* rectangle of drawImage that lie inside the clip path.
paints(clip, px, py) ==
  /\ inClipPath(clip.points, px, py)
  /\ clip.coordinates.minX <= px /\ px < clip.coordinates.maxX
  /\ clip.coordinates.minY <= py /\ py < clip.coordinates.maxY

\* clipImg.onload: save, clip to the polygon, drawImage, restore.
drawClip(raster, clip) ==
  [p \in Probes |->
     IF paints(clip, p[1], p[2]) THEN clip.imageUrl.src ELSE raster[p]]

\* A faulty variant of onPage: every region passes the filter.
onAnyPage(clip, pageIndex) == TRUE

\* The filter of pageClips: clip.coordinates.pageIndex === pageIndex.
onPage(clip, pageIndex) == clip.coordinates.pageIndex = pageIndex

\* The call up to its await of Promise.all: null without a region of the
\* page, a throw without a 2D context, else a white canvas and one pending
\* decode per region of the page.
reconstructFromClippedImages(pageIndex, hasContext) ==
  /\ canvasMounted
  /\ Len(clippedImages) > 0
  /\ pageIndex \in 0..(Len(images) - 1)
  /\ LET pageClips ==
           SelectSeq(clippedImages, LAMBDA clip : onPage(clip, pageIndex))
     IN  IF Len(pageClips) = 0
         THEN /\ last' = Ran("reconstruct", "null")
              /\ UNCHANGED reconstructions
         ELSE IF ~hasContext
         THEN /\ last' = Ran("reconstruct", "throw:context")
              /\ UNCHANGED reconstructions
         ELSE /\ reconstructions' = Append(reconstructions,
                   [pageIndex |-> pageIndex,
                    pageClips |-> pageClips,
                    pending |-> 1..Len(pageClips),
                    drawn |-> <<>>,
                    raster |-> [p \in Probes |-> White],
                    status |-> "loading"])
              /\ last' = Ran("reconstruct", "await")
  /\ UNCHANGED <<docVars, previewVars, downloadVars,
                 currentImageIndex, selectedPoints, dragPointIndex,
                 canvasStyle, clippedImages, clipCalls, stuckClips>>

\* clipImg.onload of region c of call r.  The last load resolves Promise.all
\* and the call returns canvas.toDataURL in the same turn of the event loop.
\* The handler does not look at the state of the call: a load that arrives
\* after Promise.all has rejected draws on the canvas all the same.
clipImgOnload(r, c) ==
  /\ r \in 1..Len(reconstructions)
  /\ LET run == reconstructions[r]
     IN  /\ run.status \in {"loading", "rejected"}
         /\ c \in run.pending
         /\ run.pageClips[c].imageUrl.kind = "jpeg"
         /\ LET status == IF run.status = "rejected" THEN "rejected"
                          ELSE IF run.pending = {c} THEN "resolved"
                          ELSE "loading"
            IN  /\ reconstructions' =
                     [reconstructions EXCEPT ![r] =
                        [run EXCEPT !.pending = run.pending \ {c},
                                    !.drawn = Append(run.drawn, c),
                                    !.raster = drawClip(run.raster,
                                                        run.pageClips[c]),
                                    !.status = status]]
                /\ last' = Ran("reconstruct",
                             IF run.status = "rejected" THEN "late"
                             ELSE status)
  /\ UNCHANGED <<docVars, previewVars, downloadVars,
                 currentImageIndex, selectedPoints, dragPointIndex,
                 canvasStyle, clippedImages, clipCalls, stuckClips>>

\* The value a resolved call returns: canvas.toDataURL("image/jpeg").
reconstructed(run) == [p \in Probes |-> toDataURL(run.raster[p])]

\* A faulty variant of clipImgOnerror: the region that fails to decode is
\* skipped and the call goes on with the others.
clipImgOnerrorSkips(r, c) ==
  /\ r \in 1..Len(reconstructions)
  /\ reconstructions[r].status \in {"loading", "rejected"}
  /\ c \in reconstructions[r].pending
  /\ LET run == reconstructions[r]
         status == IF run.status = "rejected" THEN "rejected"
                   ELSE IF run.pending = {c} THEN "resolved"
                   ELSE "loading"
     IN  /\ reconstructions' =
              [reconstructions EXCEPT ![r] =
                 [run EXCEPT !.pending = run.pending \ {c},
                             !.status = status]]
         /\ last' = Ran("reconstruct", status)
  /\ UNCHANGED <<docVars, previewVars, downloadVars,
                 currentImageIndex, selectedPoints, dragPointIndex,
                 canvasStyle, clippedImages, clipCalls, stuckClips>>

\* clipImg.onerror of region c of call r: Promise.all rejects and so does
\* the call; its canvas is never read again.  A second failure rejects a
\* promise that is settled already, which has no effect.
clipImgOnerror(r, c) ==
  /\ r \in 1..Len(reconstructions)
  /\ reconstructions[r].status \in {"loading", "rejected"}
  /\ c \in reconstructions[r].pending
  /\ reconstructions' =
       [reconstructions EXCEPT ![r].status = "rejected",
                               ![r].pending = @ \ {c}]
  /\ last' = Ran("reconstruct", "rejected")
  /\ UNCHANGED <<docVars, previewVars, downloadVars,
                 currentImageIndex, selectedPoints, dragPointIndex,
                 canvasStyle, clippedImages, clipCalls, stuckClips>>

----------------------------------------------------------------------------
(* The reconstruction session: the user outlines one of two overlapping    *)
(* triangles, clips it (one clip at a time), uploads documents and         *)
(* switches pages; then the pages are reconstructed.                       *)

\* The page is reconstructed at most this many times.
MaxRuns == 2

Outlines ==
  {<<Point(0, 0), Point(12, 16), Point(40, 0)>>,
   <<Point(0, 0), Point(40, 0), Point(40, 20)>>}

\* The device positions of the corners of Outlines.
OutlineEvents == FarEvents \cup {MouseEvent(30, 20)}

IsPrefix(s, t) == Len(s) <= Len(t) /\ \A k \in 1..Len(s) : s[k] = t[k]

\* No call of the reconstruction has been made yet.
collecting == reconstructions = <<>>

NextReconstruct ==
  \/ collecting /\ \E file \in Files : convertPDFToImages(file)
  \/ collecting /\ \E rendered \in BOOLEAN : conversionSettles(rendered)
  \/ \E event \in OutlineEvents :
       /\ collecting
       /\ handleMouseDown(event)
       /\ dragPointIndex' = Null
       /\ \E outline \in Outlines : IsPrefix(selectedPoints', outline)
  \/ collecting /\ handleClip /\ clipCalls = <<>> /\ ClipsAlive' <= MaxRegions
  \/ collecting /\ imgOnload(1, TRUE)
  \/ collecting /\ \E index \in 0..1 : setCurrentImageIndex(index)
  \/ \E pageIndex \in 0..1, hasContext \in BOOLEAN :
       /\ reconstructFromClippedImages(pageIndex, hasContext)
       /\ clipCalls = <<>> /\ selectedPoints = <<>> /\ dragPointIndex = Null
       /\ Len(reconstructions') <= MaxRuns
  \/ \E r \in 1..MaxRuns, c \in 1..MaxRegions : clipImgOnload(r, c)
  \/ \E r \in 1..MaxRuns, c \in 1..MaxRegions : clipImgOnerror(r, c)

SpecReconstruct == Init /\ [][NextReconstruct]_vars

----------------------------------------------------------------------------
(* Handlers of one render called back-to-back: both calls close over the   *)
(* selectedPoints of that render, and each state takes the value of the    *)
(* last set call made on it.                                               *)

\* What one call of handleMouseDown asks for, given the selectedPoints it
\* closed over: nothing (a throw), setDragPointIndex or setSelectedPoints.
mouseDownCall(points, event) ==
  LET coords == getCanvasCoordinates(event, Canvas)
      pointIndex == findIndexNear(points, coords)
  IN  IF pointIndex = ThrowsTypeError
      THEN [kind |-> "throw", dragPointIndex |-> Null,
            selectedPoints |-> points]
      ELSE IF pointIndex # NotFound
      THEN [kind |-> "drag", dragPointIndex |-> pointIndex,
            selectedPoints |-> points]
      ELSE [kind |-> "add", dragPointIndex |-> Null,
            selectedPoints |-> Spread(points) \o <<coords>>]

\* Two calls of the handleMouseDown of one render, as in one act() of the
\* hook's test.
handleMouseDownTwice(event1, event2) ==
  /\ canvasMounted
  /\ Len(selectedPoints) < MaxPoints
  /\ LET first == mouseDownCall(selectedPoints, event1)
         second == mouseDownCall(selectedPoints, event2)
     IN  /\ selectedPoints' =
              IF second.kind = "add" THEN second.selectedPoints
              ELSE IF first.kind = "add" THEN first.selectedPoints
              ELSE selectedPoints
         /\ dragPointIndex' =
              IF second.kind = "drag" THEN second.dragPointIndex
              ELSE IF first.kind = "drag" THEN first.dragPointIndex
              ELSE dragPointIndex
         /\ last' = Ran("handleMouseDown", second.kind)
  /\ UNCHANGED <<docVars, previewVars, downloadVars,
                 reconstructions, currentImageIndex, canvasStyle,
                 clippedImages, clipCalls, stuckClips>>

\* The hook on its own: pointer events, single or two in one batch.
NextBatch ==
  \/ \E event \in Events : handleMouseDown(event)
  \/ \E event1, event2 \in Events : handleMouseDownTwice(event1, event2)
  \/ \E event \in MoveEvents : handleMouseMove(event)
  \/ handleMouseUp
  \/ handleMouseLeave

SpecBatch == Init /\ [][NextBatch]_vars

----------------------------------------------------------------------------
(* The whole session on one page: the user outlines a triangle, drags its  *)
(* first point to (12,12), clips (one clip at a time), deletes regions,    *)
(* and in the end has the page reconstructed once.                         *)

NextSession ==
  \/ \E event \in FarEvents :
       /\ handleMouseDown(event)
       /\ dragPointIndex' = Null
       /\ \E outline \in Outlines : IsPrefix(selectedPoints', outline)
  \/ handleMouseDown(MouseEvent(16, 16))
  \/ handleMouseMove(MouseEvent(16, 16))
  \/ handleMouseUp
  \/ clearPoints
  \/ collecting /\ handleClip /\ clipCalls = <<>> /\ ClipsAlive' <= MaxRegions
  \/ collecting /\ imgOnload(1, TRUE)
  \/ \E index \in 0..(MaxRegions - 1) : collecting /\ removeClippedImage(index)
  \/ collecting /\ clearAllClippedImages
  \/ reconstructFromClippedImages(0, TRUE) /\ clipCalls = <<>> /\ collecting
  \/ \E c \in 1..MaxRegions : clipImgOnload(1, c)

SpecSession == Init /\ [][NextSession]_vars

----------------------------------------------------------------------------
(* Extraction at positions between pixels.  getCanvasCoordinates multiplies *)
(* a pointer offset by canvas.width / canvas.clientWidth; a canvas of width *)
(* 60 shown 40 wide maps the offset d to 1.5 d.  In this section a          *)
(* coordinate counts half pixels, so that 25 stands for 12.5.               *)

HalfPixelCoordinates == {0, 10, 25, 41}

SubPixelPositions ==
  {Point(x, y) : x \in HalfPixelCoordinates, y \in HalfPixelCoordinates}

SubPixelPolygons ==
  {<<p, q, r>> : p \in SubPixelPositions, q \in SubPixelPositions,
                 r \in SubPixelPositions}

\* clipCanvas.width = width: the attribute is an unsigned long, the
\* assignment keeps the integer part of the number and turns NaN into 0.
\* The argument counts half pixels, the result counts pixels.
canvasPixels(halves) == IF halves = NaN THEN 0 ELSE halves \div 2

\* clipImage on a list between pixels, the image decoded: the region that is
\* stored, and with its data URL the size of the canvas that was encoded.
clipBetweenPixels ==
  /\ canvasMounted
  /\ ~tooFewPoints(selectedPoints)
  /\ clippedImages = <<>>
  /\ LET out == clipImageFromPoints(At(images, currentImageIndex),
                                    selectedPoints, currentImageIndex, TRUE)
         box == calculateBoundingBox(selectedPoints)
         clipCanvas == [width |-> canvasPixels(box.width),
                        height |-> canvasPixels(box.height)]
         region == withZIndex(out.value, Len(clippedImages))
     IN  /\ out.result = "resolve"
         /\ clippedImages' =
              addClippedImage(clippedImages,
                [imageUrl |-> [kind |-> IF clipCanvas.width = 0
                                           \/ clipCanvas.height = 0
                                        THEN "empty" ELSE "jpeg",
                               src |-> region.imageUrl.src,
                               width |-> clipCanvas.width,
                               height |-> clipCanvas.height],
                 coordinates |-> region.coordinates,
                 points |-> region.points,
                 zIndex |-> region.zIndex])
  /\ selectedPoints' = pointsAfterClip("resolve", selectedPoints)
  /\ last' = Ran("handleClip", "clipped")
  /\ UNCHANGED <<docVars, previewVars, downloadVars, reconstructions,
                 currentImageIndex,
                 dragPointIndex, canvasStyle, clipCalls, stuckClips>>

InitExtract ==
  /\ images = <<PageImage(1, 0), PageImage(1, 1)>>
  /\ isLoading = FALSE
  /\ converting = Null
  /\ currentImageIndex \in {0, 1}
  /\ selectedPoints \in SubPixelPolygons
  /\ dragPointIndex = Null
  /\ canvasStyle = "default"
  /\ clippedImages = <<>>
  /\ clipCalls = <<>>
  /\ stuckClips = 0
  /\ reconstructions = <<>>
  /\ previewUrl = <<>>
  /\ previewDeps = <<>>
  /\ previewLoads = <<>>
  /\ reconstructCalls = <<>>
  /\ downloads = <<>>
  /\ last = Ran("mount", "idle")

NextExtract ==
  \/ clipBetweenPixels
  \/ clearAllClippedImages

SpecExtract == InitExtract /\ [][NextExtract]_vars

----------------------------------------------------------------------------
(* The round trip: one polygon on page 0 of a document is clipped and the  *)
(* page is reconstructed from that region.  The polygons are triangles and *)
(* axis-aligned rectangles with corners on whole pixels.                   *)

GridX == {0, 20, 40}
GridY == {0, 12, 20}

Rectangles ==
  {<<Point(x1, y1), Point(x2, y1), Point(x2, y2), Point(x1, y2)>> :
     <<x1, x2, y1, y2>> \in
       {t \in GridX \X GridX \X GridY \X GridY : t[1] < t[2] /\ t[3] < t[4]}}

Triangles ==
  {<<Point(x1, y1), Point(x2, y1), Point(x2, y2)>> :
     <<x1, x2, y1, y2>> \in
       {t \in GridX \X GridX \X GridY \X GridY : t[1] < t[2] /\ t[3] < t[4]}}

RoundTripPolygons == Outlines \cup Triangles \cup Rectangles

InitRoundTrip ==
  /\ \E file \in Files :
       images = [k \in 1..numPages(file) |-> PageImage(file, k - 1)]
  /\ isLoading = FALSE
  /\ converting = Null
  /\ currentImageIndex = 0
  /\ selectedPoints \in RoundTripPolygons
  /\ dragPointIndex = Null
  /\ canvasStyle = "default"
  /\ clippedImages = <<>>
  /\ clipCalls = <<>>
  /\ stuckClips = 0
  /\ reconstructions = <<>>
  /\ previewUrl = <<>>
  /\ previewDeps = <<>>
  /\ previewLoads = <<>>
  /\ reconstructCalls = <<>>
  /\ downloads = <<>>
  /\ last = Ran("mount", "idle")

NextRoundTrip ==
  \/ handleClip /\ ClipsAlive' <= 1
  \/ imgOnload(1, TRUE)
  \/ /\ reconstructFromClippedImages(0, TRUE)
     /\ clipCalls = <<>> /\ collecting
  \/ clipImgOnload(1, 1)

SpecRoundTrip == InitRoundTrip /\ [][NextRoundTrip]_vars

----------------------------------------------------------------------------
(* The coordinate mapper on its own: canvases shown at the scales 2 x 2,   *)
(* 1.5 x 2, 3 x 1 and 1 x 3, and pointer positions whose images are whole  *)
(* pixels.                                                                 *)

Canvases ==
  {Canvas,
   [left |-> 10, top |-> 10, clientWidth |-> 40, clientHeight |-> 40,
    width |-> 60, height |-> 80],
   [left |-> 0, top |-> 4, clientWidth |-> 20, clientHeight |-> 40,
    width |-> 60, height |-> 40],
   [left |-> 10, top |-> 10, clientWidth |-> 40, clientHeight |-> 20,
    width |-> 40, height |-> 60]}

MapperEvents ==
  {MouseEvent(cx, cy) : cx \in {10, 12, 16, 20, 30, 50},
                        cy \in {10, 14, 18, 20, 50}}

\* One call of getCanvasCoordinates; the call and what it returned are
\* recorded in last.
mapPosition(event, canvas) ==
  /\ last' = Ran("getCanvasCoordinates",
                 [event |-> event, canvas |-> canvas,
                  point |-> getCanvasCoordinates(event, canvas)])
  /\ UNCHANGED <<docVars, previewVars, downloadVars, reconstructions,
                 currentImageIndex,
                 selectedPoints, dragPointIndex, canvasStyle, clippedImages,
                 clipCalls, stuckClips>>

NextMapper ==
  \E event \in MapperEvents, canvas \in Canvases : mapPosition(event, canvas)

SpecMapper == Init /\ [][NextMapper]_vars

----------------------------------------------------------------------------
(* Points and pages: the user places points only while page 0 is shown,    *)
(* switches pages and clips.                                               *)

NextPages ==
  \/ \E event \in FarEvents :
       /\ currentImageIndex = 0
       /\ handleMouseDown(event)
       /\ dragPointIndex' = Null
  \/ clearPoints
  \/ handleClip /\ ClipsAlive' <= MaxRegions
  \/ \E k \in 1..MaxRegions : imgOnload(k, TRUE)
  \/ \E index \in 0..1 : setCurrentImageIndex(index)

SpecPages == Init /\ [][NextPages]_vars

----------------------------------------------------------------------------
(* ReconstructedPreview: the preview of the displayed page under the       *)
(* gallery.  Its effect runs when pageIndex, originalImage or              *)
(* clippedImages change and calls loadPreview, which awaits the            *)
(* reconstruction and then sets previewUrl.                                *)

\* At most this many calls of loadPreview are in flight.
MaxLoads == 2

\* The props of the component in the current render.
previewProps ==
  [pageIndex |-> currentImageIndex,
   originalImage |-> IF currentImageIndex < Len(images)
                     THEN At(images, currentImageIndex) ELSE NoImage,
   clippedImages |-> clippedImages]

\* The component is rendered: a document is shown and the gallery is not
\* empty.
previewMounted == ~isLoading /\ Len(images) > 0 /\ Len(clippedImages) > 0

\* The orders in which n images can finish loading.
Orders(n) ==
  {order \in [1..n -> 1..n] : \A i, j \in 1..n : order[i] = order[j] => i = j}

RECURSIVE drawFrom(_, _, _, _)
drawFrom(raster, pageClips, order, i) ==
  IF i > Len(order) THEN raster
  ELSE drawFrom(drawClip(raster, pageClips[order[i]]), pageClips, order,
                i + 1)

\* What reconstructFromClippedImages resolves with when the images of the
\* regions of the page load in the given order: <<>> for null, or the
\* raster of the data URL.
reconstructedPage(pageIndex, clips, order) ==
  LET pageClips == SelectSeq(clips, LAMBDA clip : onPage(clip, pageIndex))
      canvas == drawFrom([p \in Probes |-> White], pageClips, order, 1)
  IN  IF Len(pageClips) = 0 THEN <<>>
      ELSE <<[p \in Probes |-> toDataURL(canvas[p])]>>

\* The effect: the props differ from those of its last run.
loadPreview ==
  /\ previewMounted
  /\ previewDeps # <<previewProps>>
  /\ previewDeps' = <<previewProps>>
  /\ previewLoads' = Append(previewLoads, previewProps)
  /\ last' = Ran("loadPreview", "await")
  /\ UNCHANGED <<docVars, previewUrl, downloadVars, reconstructions,
                 currentImageIndex,
                 selectedPoints, dragPointIndex, canvasStyle, clippedImages,
                 clipCalls, stuckClips>>

\* The k-th call in flight gets its reconstruction, the images having
\* loaded in the given order, and calls setPreviewUrl.
previewSettles(k, order) ==
  /\ k \in 1..Len(previewLoads)
  /\ previewLoads[k].originalImage # NoImage
  /\ LET load == previewLoads[k]
         pageClips == SelectSeq(load.clippedImages,
                                LAMBDA clip : onPage(clip, load.pageIndex))
     IN  /\ order \in Orders(Len(pageClips))
         /\ \A c \in 1..Len(pageClips) : pageClips[c].imageUrl.kind = "jpeg"
         /\ previewUrl' =
              reconstructedPage(load.pageIndex, load.clippedImages, order)
  /\ previewLoads' = RemoveAt(previewLoads, k)
  /\ last' = Ran("loadPreview", "setPreviewUrl")
  /\ UNCHANGED <<docVars, previewDeps, downloadVars, reconstructions,
                 currentImageIndex,
                 selectedPoints, dragPointIndex, canvasStyle, clippedImages,
                 clipCalls, stuckClips>>

NextPreview ==
  \/ \E event \in OutlineEvents :
       /\ handleMouseDown(event)
       /\ dragPointIndex' = Null
       /\ \E outline \in Outlines : IsPrefix(selectedPoints', outline)
  \/ handleClip /\ clipCalls = <<>> /\ ClipsAlive' <= MaxRegions
  \/ imgOnload(1, TRUE)
  \/ \E index \in 0..1 : setCurrentImageIndex(index)
  \/ loadPreview /\ Len(previewLoads') <= MaxLoads
  \/ \E k \in 1..MaxLoads, order \in Orders(0) \cup Orders(1) \cup Orders(2) :
       previewSettles(k, order)

SpecPreview == Init /\ [][NextPreview]_vars

----------------------------------------------------------------------------
(* App.handleReconstruct: the Reconstruct button of the gallery.  Every    *)
(* page of the document is reconstructed, the pages without a region       *)
(* (null) are filtered out, and one link per remaining page is clicked.    *)

\* At most this many calls of handleReconstruct are in flight.
MaxReconstructs == 1
\* The session saves at most this many files.
MaxFiles == 3

\* The template literal `${stem}${number}.jpg`.
fileName(stem, number) == [stem |-> stem, number |-> number, ext |-> ".jpg"]

\* ReconstructedPreview.handleDownload: the link.download of the preview of
\* page pageIndex.
previewDownloadName(pageIndex) == fileName("reconstructed-page-", pageIndex + 1)

\* The orders in which the images of the regions of a page can load.
AllOrders == UNION {Orders(n) : n \in 0..MaxRegions}

\* images.map(...) under Promise.all: what each page resolves with when the
\* images of its regions load in the order given for it.
reconstructedPages(call, orders) ==
  [i \in 1..Len(call.images) |->
     reconstructedPage(i - 1, call.clippedImages, orders[i])]

\* validPages.forEach((page, index) => ...): the links clicked, in order.
clickedLinks(validPages) ==
  [k \in 1..Len(validPages) |->
     [download |-> fileName("reconstructed-page-", (k - 1) + 1),
      href |-> validPages[k][1]]]

\* The call up to its await of Promise.all; it closes over the images and
\* the clippedImages of the render.  The button is part of the gallery.
handleReconstruct ==
  /\ previewMounted
  /\ reconstructCalls' =
       Append(reconstructCalls,
              [images |-> images, clippedImages |-> clippedImages])
  /\ last' = Ran("handleReconstruct", "await")
  /\ UNCHANGED <<docVars, previewVars, downloads, reconstructions,
                 currentImageIndex, selectedPoints, dragPointIndex,
                 canvasStyle, clippedImages, clipCalls, stuckClips>>

\* The rest of the k-th call in flight.  Promise.all rejects when a page
\* with regions gets no 2D context or when the image of one of its regions
\* fails to decode, and the catch logs the error; else the pages that are
\* not null are saved.
handleReconstructSettles(k, orders, hasContext) ==
  /\ k \in 1..Len(reconstructCalls)
  /\ LET call == reconstructCalls[k]
         loaded == {c \in 1..Len(call.clippedImages) :
                      call.clippedImages[c].coordinates.pageIndex
                        < Len(call.images)}
         rejects == \/ ~hasContext /\ loaded # {}
                    \/ \E c \in loaded :
                         call.clippedImages[c].imageUrl.kind # "jpeg"
     IN  /\ orders \in [1..Len(call.images) -> AllOrders]
         /\ \A i \in 1..Len(call.images) :
              orders[i] \in
                Orders(Len(SelectSeq(call.clippedImages,
                                     LAMBDA clip : onPage(clip, i - 1))))
         /\ IF rejects
            THEN /\ last' = Ran("handleReconstruct", "error")
                 /\ UNCHANGED downloads
            ELSE LET validPages ==
                       SelectSeq(reconstructedPages(call, orders),
                                 LAMBDA page : page # <<>>)
                 IN  /\ downloads' = downloads \o clickedLinks(validPages)
                     /\ last' = Ran("handleReconstruct", "downloaded")
  /\ reconstructCalls' = RemoveAt(reconstructCalls, k)
  /\ UNCHANGED <<docVars, previewVars, reconstructions,
                 currentImageIndex, selectedPoints, dragPointIndex,
                 canvasStyle, clippedImages, clipCalls, stuckClips>>

\* Nothing has been reconstructed yet.
editing == reconstructCalls = <<>> /\ downloads = <<>>

\* The download session: the user outlines triangles on either page, clips
\* them (one clip at a time) and deletes regions; then all pages are
\* reconstructed.
NextDownloads ==
  \/ \E event \in OutlineEvents :
       /\ editing
       /\ handleMouseDown(event)
       /\ dragPointIndex' = Null
       /\ \E outline \in Outlines : IsPrefix(selectedPoints', outline)
  \/ editing /\ handleClip /\ clipCalls = <<>> /\ ClipsAlive' <= MaxRegions
  \/ editing /\ imgOnload(1, TRUE)
  \/ editing /\ \E index \in 0..1 : setCurrentImageIndex(index)
  \/ editing /\ \E index \in 0..(MaxRegions - 1) : removeClippedImage(index)
  \/ /\ handleReconstruct
     /\ clipCalls = <<>> /\ selectedPoints = <<>>
     /\ Len(reconstructCalls') <= MaxReconstructs
     /\ Len(downloads) < MaxFiles
  \/ \E k \in 1..MaxReconstructs, hasContext \in BOOLEAN :
       \E orders \in [1..Len(images) -> AllOrders] :
         /\ handleReconstructSettles(k, orders, hasContext)
         /\ Len(downloads') <= MaxFiles

SpecDownloads == Init /\ [][NextDownloads]_vars

----------------------------------------------------------------------------
(* The two owners side by side: the session above, where in addition the   *)
(* pointer leaves the canvas and a region fails to decode while the page   *)
(* is reconstructed.  Pointer events and the gallery buttons stay          *)
(* available while a reconstruction waits for its images.                  *)

NextFrames ==
  \/ \E event \in FarEvents :
       /\ handleMouseDown(event)
       /\ dragPointIndex' = Null
       /\ \E outline \in Outlines : IsPrefix(selectedPoints', outline)
  \/ handleMouseDown(MouseEvent(16, 16))
  \/ handleMouseMove(MouseEvent(16, 16))
  \/ handleMouseUp
  \/ handleMouseLeave
  \/ clearPoints
  \/ handleClip /\ clipCalls = <<>> /\ ClipsAlive' <= MaxRegions
  \/ imgOnload(1, TRUE)
  \/ \E index \in 0..(MaxRegions - 1) : removeClippedImage(index)
  \/ clearAllClippedImages
  \/ \E hasContext \in BOOLEAN :
       /\ reconstructFromClippedImages(0, hasContext)
       /\ Len(reconstructions') <= 1
  \/ \E c \in 1..MaxRegions : clipImgOnload(1, c)
  \/ \E c \in 1..MaxRegions : clipImgOnerror(1, c)

SpecFrames == Init /\ [][NextFrames]_vars

----------------------------------------------------------------------------
(* Properties of the clip (commit) path, checked under SpecClips. *)

\* Reading slot by slot: an empty slot reads as undefined.
Reads(arr) ==
  [k \in 1..Len(arr) |-> IF IsPoint(arr[k]) THEN arr[k] ELSE Undefined]

C5_SuccessAddsOneAndClears ==
  [][/\ \A k \in 1..Len(clipCalls), hasContext \in BOOLEAN :
          (imgOnload(k, hasContext) /\ last'.result = "clipped")
            => /\ Len(clippedImages') = Len(clippedImages) + 1
               /\ SubSeq(clippedImages', 2, Len(clippedImages')) = clippedImages
               /\ clippedImages'[1].coordinates.pageIndex
                    = clipCalls[k].currentImageIndex
               /\ Reads(clippedImages'[1].points)
                    = Reads(clipCalls[k].selectedPoints)
               /\ selectedPoints' = <<>>
     /\ ( /\ \/ handleClip
             \/ \E k \in 1..Len(clipCalls) : imgOnerror(k)
             \/ \E k \in 1..Len(clipCalls), hasContext \in BOOLEAN :
                  imgOnload(k, hasContext)
          /\ last'.result # "clipped" )
        => selectedPoints' = selectedPoints]_vars

\* A clip has just succeeded: it added a second region to the collection
\* and the working list is empty.
C5_Witness ==
  /\ last = Ran("handleClip", "clipped")
  /\ Len(clippedImages) = 2
  /\ selectedPoints = <<>>

\* C6: when the source raster of a clip fails to decode, the clip is rejected
\* to handleClip, which logs the error; no region is added, no promise is left
\* pending, and the working list keeps its points.
C6_DecodeFailureKeepsState ==
  [][\A k \in 1..Len(clipCalls) :
       imgOnerror(k)
         => /\ last' = Ran("handleClip", "error:load")
            /\ Len(clipCalls') = Len(clipCalls) - 1
            /\ stuckClips' = stuckClips
            /\ clippedImages' = clippedImages
            /\ selectedPoints' = selectedPoints]_vars

C6_Witness ==
  /\ last = Ran("handleClip", "error:load")
  /\ Len(selectedPoints) = 3
  /\ clippedImages = <<>>

\* C7: when the 2D context of the clip canvas cannot be had after the source
\* has decoded, the clip is rejected to the caller (it settles), no region is
\* added and the working list is unchanged.
C7_ContextFailureRejects ==
  [][\A k \in 1..Len(clipCalls) :
       imgOnload(k, FALSE)
         => /\ last' = Ran("handleClip", "error:context")
            /\ stuckClips' = stuckClips
            /\ clippedImages' = clippedImages
            /\ selectedPoints' = selectedPoints]_vars

\* C8: of two regions in the collection, the one created later (it stands
\* nearer the front) has the strictly larger zIndex.
C8_CreationOrder ==
  \A i, j \in 1..Len(clippedImages) :
    i < j => clippedImages[i].zIndex > clippedImages[j].zIndex

\* C9: the zIndex of a region is the number of regions in the collection at
\* the moment the region is added.
C9_IndexIsSizeWhenAdded ==
  [][\A k \in 1..Len(clipCalls), hasContext \in BOOLEAN :
       (imgOnload(k, hasContext) /\ last'.result = "clipped")
         => clippedImages'[1].zIndex = Len(clippedImages)]_vars

----------------------------------------------------------------------------
(* Properties of the point editor, checked under Spec. *)

\* The source pixel under a pointer event.
SourcePosition(event) ==
  Point(((event.clientX - Canvas.left) * Canvas.width) \div Canvas.clientWidth,
        ((event.clientY - Canvas.top) * Canvas.height) \div Canvas.clientHeight)

SquaredDistance(p, q) == (p.x - q.x) * (p.x - q.x) + (p.y - q.y) * (p.y - q.y)

\* Some point of the list lies at distance < 20 from pos.
HitsAPoint(points, pos) ==
  \E k \in 1..Len(points) :
    IsPoint(points[k]) /\ SquaredDistance(points[k], pos) < 400

\* C1: a pointer-down while the editor is idle starts a drag and leaves the
\* working list unchanged when some point of the list lies at distance < 20
\* (in source pixels) from the pointer; otherwise it appends the position as
\* the last point and keeps the earlier ones.
C1_HitTest ==
  [][\A event \in Events :
       (dragPointIndex = Null /\ handleMouseDown(event))
         => IF HitsAPoint(selectedPoints, SourcePosition(event))
            THEN dragPointIndex' # Null /\ selectedPoints' = selectedPoints
            ELSE selectedPoints' =
                   selectedPoints \o <<SourcePosition(event)>>]_vars

\* C10: a pointer-move while point i is dragged overwrites point i with the
\* position and leaves the length of the list and every other point
\* unchanged; a pointer-move while the editor is idle leaves the list
\* unchanged.
C10_MoveOverwritesOnePoint ==
  [][\A event \in MoveEvents :
       handleMouseMove(event)
         => IF dragPointIndex # Null
            THEN /\ Len(selectedPoints') = Len(selectedPoints)
                 /\ \A k \in 1..Len(selectedPoints') :
                      selectedPoints'[k] =
                        IF k = dragPointIndex + 1 THEN SourcePosition(event)
                        ELSE selectedPoints[k]
            ELSE selectedPoints' = selectedPoints]_vars

----------------------------------------------------------------------------
(* Properties of the reconstruction, checked under SpecReconstruct. *)

\* C2: in every call of the reconstruction the regions of the page are drawn
\* in ascending zIndex order, whatever the order of their loads: a region
\* with a larger zIndex is never drawn before one with a smaller zIndex.
C2_DrawnInAscendingZIndex ==
  \A r \in 1..Len(reconstructions) :
    LET run == reconstructions[r]
    IN  \A i, j \in 1..Len(run.drawn) :
          i < j => run.pageClips[run.drawn[i]].zIndex
                     <= run.pageClips[run.drawn[j]].zIndex

\* C3: two resolved calls for the same regions and the same page return the
\* same raster, and a pixel painted by two regions of the page shows the
\* content of the one with the larger zIndex.
C3_SameRasterWhateverTheLoadOrder ==
  /\ \A r1, r2 \in 1..Len(reconstructions) :
       LET run1 == reconstructions[r1]
           run2 == reconstructions[r2]
       IN  (/\ run1.status = "resolved" /\ run2.status = "resolved"
            /\ run1.pageIndex = run2.pageIndex
            /\ run1.pageClips = run2.pageClips)
             => run1.raster = run2.raster
  /\ \A r \in 1..Len(reconstructions) :
       LET run == reconstructions[r]
       IN  run.status = "resolved" =>
             \A a, b \in 1..Len(run.pageClips), p \in Probes :
               (/\ run.pageClips[a].zIndex < run.pageClips[b].zIndex
                /\ paints(run.pageClips[a], p[1], p[2])
                /\ paints(run.pageClips[b], p[1], p[2]))
                 => run.raster[p] = run.pageClips[b].imageUrl.src

----------------------------------------------------------------------------
(* Further properties of the point editor, checked under Spec. *)

\* C11: a pointer-up and a pointer-leave each leave the editor idle and the
\* working list as it was (the dragged point keeps the position of the last
\* move); a pointer-move of the idle editor changes no point; and the editor
\* leaves the idle state only by a pointer-down.
C11_ReleaseKeepsPoints ==
  [][/\ (handleMouseUp \/ handleMouseLeave)
          => dragPointIndex' = Null /\ selectedPoints' = selectedPoints
     /\ \A event \in MoveEvents :
          (dragPointIndex = Null /\ handleMouseMove(event))
            => dragPointIndex' = Null /\ selectedPoints' = selectedPoints
     /\ (dragPointIndex = Null /\ dragPointIndex' # Null)
          => \E event \in Events : handleMouseDown(event)]_vars

\* The second point was dragged from (12,16) to (12,12) and released, and
\* the pointer has moved since: (12,12) lies within 20 of (0,0), so it can
\* only have got there by a drag.
C11_Witness ==
  /\ selectedPoints = <<Point(0, 0), Point(12, 12)>>
  /\ dragPointIndex = Null
  /\ last = Ran("handleMouseMove", "idle")

\* The index of the point of the list nearest to pos, the lowest such index
\* among equally near points.
NearestIndex(points, pos) ==
  CHOOSE i \in 0..(Len(points) - 1) :
    \A j \in 0..(Len(points) - 1) :
      \/ SquaredDistance(At(points, i), pos)
           < SquaredDistance(At(points, j), pos)
      \/ /\ SquaredDistance(At(points, i), pos)
              = SquaredDistance(At(points, j), pos)
         /\ i <= j

\* C12: a pointer-down of the idle editor within distance < 20 of some point
\* of the list (every slot of which holds a point) starts the drag of the
\* nearest point, the lowest index among equally near ones.
C12_NearestPointIsDragged ==
  [][\A event \in Events :
       (/\ dragPointIndex = Null
        /\ \A k \in 1..Len(selectedPoints) : IsPoint(selectedPoints[k])
        /\ HitsAPoint(selectedPoints, SourcePosition(event))
        /\ handleMouseDown(event))
         => dragPointIndex' =
              NearestIndex(selectedPoints, SourcePosition(event))]_vars

\* C13: Clear Points, from any state of the editor, leaves the working list
\* empty and the editor idle.
C13_ClearLeavesIdle ==
  [][clearPoints => selectedPoints' = <<>> /\ dragPointIndex' = Null]_vars

\* C14: the editor is idle or drags an index of the working list:
\* 0 <= dragPointIndex < selectedPoints.length whenever it is not null.
C14_DragIndexInRange ==
  dragPointIndex = Null
    \/ (0 <= dragPointIndex /\ dragPointIndex < Len(selectedPoints))

----------------------------------------------------------------------------
(* Properties of batched pointer events, checked under SpecBatch. *)

\* C15: two pointer-downs of one batch act as if handled one after the
\* other: when neither position is within 20 of a point of the list and the
\* second is within 20 of the first, the first position is appended and the
\* second starts the drag of that new point; no point is lost or replaced.
C15_BatchedDownsAreSequential ==
  [][\A event1, event2 \in Events :
       (/\ dragPointIndex = Null
        /\ ~HitsAPoint(selectedPoints, SourcePosition(event1))
        /\ ~HitsAPoint(selectedPoints, SourcePosition(event2))
        /\ SquaredDistance(SourcePosition(event1), SourcePosition(event2)) < 400
        /\ handleMouseDownTwice(event1, event2))
         => /\ selectedPoints' = selectedPoints \o <<SourcePosition(event1)>>
            /\ dragPointIndex' = Len(selectedPoints)]_vars

----------------------------------------------------------------------------
(* Further properties of the reconstruction, checked under                 *)
(* SpecReconstruct.                                                        *)

\* C16: a reconstruction of a page that no region of the collection carries
\* returns null: no canvas is made, nothing is thrown or rejected.  A
\* reconstruction of a page that some region carries (a 2D context being
\* had) makes a canvas, decodes exactly the regions of that page, and has
\* returned its raster once all of them have loaded.
C16_NullWithoutRegions ==
  [][\A pageIndex \in 0..1, hasContext \in BOOLEAN :
       reconstructFromClippedImages(pageIndex, hasContext)
         => IF \A k \in 1..Len(clippedImages) :
                 clippedImages[k].coordinates.pageIndex # pageIndex
            THEN /\ last' = Ran("reconstruct", "null")
                 /\ reconstructions' = reconstructions
            ELSE hasContext
                   => /\ Len(reconstructions') = Len(reconstructions) + 1
                      /\ LET run == reconstructions'[Len(reconstructions')]
                         IN  /\ Len(run.pageClips) > 0
                             /\ \A k \in 1..Len(run.pageClips) :
                                  run.pageClips[k].coordinates.pageIndex
                                    = pageIndex
                             /\ run.status = "loading"]_vars
  /\ [](\A r \in 1..Len(reconstructions) :
          LET run == reconstructions[r]
          IN  /\ Len(run.pageClips) > 0
              /\ Len(run.drawn) = Len(run.pageClips)
                   => run.status = "resolved")

\* A page with regions has been reconstructed and has returned its raster,
\* and a reconstruction of the other page, which has none, has returned null.
C16_Witness ==
  /\ last = Ran("reconstruct", "null")
  /\ Len(reconstructions) = 1
  /\ reconstructions[1].status = "resolved"

----------------------------------------------------------------------------
(* Properties of the whole session, checked under SpecSession. *)

\* C17: a region of the collection never changes.  A step leaves the
\* collection as it is, puts one new region in front of the unchanged
\* stored ones, takes one region out and leaves the others unchanged, or
\* empties it; pointer events, Clear Points and every step of a
\* reconstruction leave the collection as it is.
C17_RegionsAreSnapshots ==
  [][/\ \/ clippedImages' = clippedImages
        \/ /\ Len(clippedImages') = Len(clippedImages) + 1
           /\ SubSeq(clippedImages', 2, Len(clippedImages')) = clippedImages
        \/ \E k \in 1..Len(clippedImages) :
             clippedImages' = RemoveAt(clippedImages, k)
        \/ clippedImages' = <<>> /\ clearAllClippedImages
     /\ ( \/ \E event \in Events : handleMouseDown(event)
          \/ \E event \in MoveEvents : handleMouseMove(event)
          \/ handleMouseUp
          \/ clearPoints
          \/ reconstructFromClippedImages(0, TRUE)
          \/ \E c \in 1..MaxRegions : clipImgOnload(1, c) )
        => clippedImages' = clippedImages]_vars

\* The triangle (0,0), (12,16), (40,0) is a region of the collection and has
\* been drawn by a reconstruction; the same triangle was outlined again and
\* its first point has just been dragged to (12,12).
C17_Witness ==
  /\ Len(clippedImages) = 1
  /\ clippedImages[1].points = <<Point(0, 0), Point(12, 16), Point(40, 0)>>
  /\ Len(reconstructions) = 1
  /\ reconstructions[1].status = "resolved"
  /\ selectedPoints = <<Point(12, 12), Point(12, 16), Point(40, 0)>>
  /\ last = Ran("handleMouseMove", "drag")

----------------------------------------------------------------------------
(* C18: for every polygon with at least 3 points the bounding box of the    *)
(* committed region is exactly (min x, min y, max x, max y) over the        *)
(* polygon's points, and the extracted raster is allocated with the width   *)
(* maxX - minX and the height maxY - minY.  Coordinates count half pixels   *)
(* and the raster counts pixels, so equal sizes are width * 2 = maxX - minX *)
(* and height * 2 = maxY - minY.                                            *)
C18_BoxAndRasterSize ==
  \A k \in 1..Len(clippedImages) :
    LET region == clippedImages[k]
        box == region.coordinates
        xs == {region.points[j].x : j \in 1..Len(region.points)}
        ys == {region.points[j].y : j \in 1..Len(region.points)}
    IN  /\ Len(region.points) >= 3
        /\ box.minX \in xs /\ \A x \in xs : box.minX <= x
        /\ box.maxX \in xs /\ \A x \in xs : box.maxX >= x
        /\ box.minY \in ys /\ \A y \in ys : box.minY <= y
        /\ box.maxY \in ys /\ \A y \in ys : box.maxY >= y
        /\ region.imageUrl.width * 2 = box.maxX - box.minX
        /\ region.imageUrl.height * 2 = box.maxY - box.minY

----------------------------------------------------------------------------
(* C19: round trip.  A page reconstructed from the single region of a      *)
(* polygon equals the source page at every pixel inside the polygon and is *)
(* white at every pixel outside it; the raster extracted for an            *)
(* axis-aligned rectangle equals the bounding-box crop of the source.      *)
(* Pixels on the outline itself are left out.                              *)

\* (px, py) lies on the segment from a to b.
OnSegment(a, b, px, py) ==
  /\ isLeft(a, b, px, py) = 0
  /\ (a.x <= px /\ px <= b.x) \/ (b.x <= px /\ px <= a.x)
  /\ (a.y <= py /\ py <= b.y) \/ (b.y <= py /\ py <= a.y)

OnOutline(points, px, py) ==
  \E k \in 1..Len(points) :
    OnSegment(points[k], points[(k % Len(points)) + 1], px, py)

\* The page raster a region was extracted from.
SourceOf(region) ==
  PageImage(region.imageUrl.src.doc, region.imageUrl.src.page)

IsRectangle(points) ==
  /\ Len(points) = 4
  /\ \A k \in 1..4 :
       LET a == points[k]
           b == points[(k % 4) + 1]
       IN  (a.x = b.x /\ a.y # b.y) \/ (a.y = b.y /\ a.x # b.x)

C19_RoundTrip ==
  /\ \A r \in 1..Len(reconstructions) :
       LET run == reconstructions[r]
           region == run.pageClips[1]
       IN  (run.status = "resolved" /\ Len(run.pageClips) = 1)
             => \A p \in Probes :
                  ~OnOutline(region.points, p[1], p[2])
                    => reconstructed(run)[p] =
                         IF inClipPath(region.points, p[1], p[2])
                         THEN SourceOf(region)
                         ELSE White
  /\ \A k \in 1..Len(clippedImages) :
       IsRectangle(clippedImages[k].points)
         => /\ clippedImages[k].imageUrl.kind = "jpeg"
            /\ clippedImages[k].imageUrl.src = SourceOf(clippedImages[k])

----------------------------------------------------------------------------
(* C20: if the raster of a region of the requested page fails to decode,   *)
(* the reconstruction rejects to the caller: the call is rejected in the   *)
(* same step, no other call is started, and a rejected call stays         *)
(* rejected for ever after: it never resolves with a raster and no decode  *)
(* of its regions is started again.                                        *)
C20_DecodeFailureRejects ==
  [][/\ \A r \in 1..MaxRuns, c \in 1..MaxRegions :
          clipImgOnerror(r, c)
            => /\ Len(reconstructions') = Len(reconstructions)
               /\ reconstructions'[r].status = "rejected"
               /\ reconstructions'[r].pending =
                    reconstructions[r].pending \ {c}
               /\ reconstructions'[r].raster = reconstructions[r].raster
               /\ last' = Ran("reconstruct", "rejected")
     /\ \A r \in 1..Len(reconstructions) :
          reconstructions[r].status = "rejected"
            => /\ r <= Len(reconstructions')
               /\ reconstructions'[r].status = "rejected"
               /\ reconstructions'[r].pageClips = reconstructions[r].pageClips
               /\ reconstructions'[r].pending \subseteq
                    reconstructions[r].pending]_vars

\* A call was rejected after one of its two regions had been drawn.
C20_Witness ==
  /\ last = Ran("reconstruct", "rejected")
  /\ \E r \in 1..Len(reconstructions) :
       /\ reconstructions[r].status = "rejected"
       /\ Len(reconstructions[r].pageClips) = 2
       /\ Len(reconstructions[r].drawn) = 1

----------------------------------------------------------------------------
(* C21: once a reconstruction has been abandoned (it has rejected because  *)
(* a region failed to decode), the decode completions of its other regions *)
(* that arrive afterwards perform no draw into its raster.                 *)
C21_LateLoadsDrawNothing ==
  [][\A r \in 1..Len(reconstructions) :
       (reconstructions[r].status = "rejected"
          /\ r <= Len(reconstructions'))
         => reconstructions'[r].raster = reconstructions[r].raster]_vars

----------------------------------------------------------------------------
(* C22: in every reachable state every stored region has a polygon of at   *)
(* least 3 points, each of them a point; and no step shortens a stored     *)
(* polygon: a region of the collection after a step is a region of the     *)
(* collection before it, or the one new region at the front.               *)
C22_PolygonsHaveThreePoints ==
  /\ [](\A k \in 1..Len(clippedImages) :
          /\ Len(clippedImages[k].points) >= 3
          /\ \A j \in 1..Len(clippedImages[k].points) :
               IsPoint(clippedImages[k].points[j]))
  /\ [][\A k \in 1..Len(clippedImages') :
          \/ \E j \in 1..Len(clippedImages) :
               clippedImages'[k] = clippedImages[j]
          \/ k = 1 /\ Len(clippedImages'[k].points) >= 3]_vars

----------------------------------------------------------------------------
(* C23: the collection is empty at the start of the session; a successful  *)
(* commit grows it by exactly one region, put at the front with the others *)
(* in their order; removeClippedImage(index) with 0 <= index < size takes   *)
(* out exactly the region at index and keeps the others in order;          *)
(* clearAllClippedImages leaves it empty; no other step changes its size.  *)
C23_Commits ==
  /\ last' = Ran("handleClip", "clipped")
  /\ \E k \in 1..MaxRegions, hasContext \in BOOLEAN : imgOnload(k, hasContext)

----------------------------------------------------------------------------
----------------------------------------------------------------------------
(* C25: the mapper returns x = (deviceX - originX) * (backingWidth /        *)
(* displayWidth) and y = (deviceY - originY) * (backingHeight /            *)
(* displayHeight), each with its own scale factor, whenever displayWidth   *)
(* and displayHeight are positive, and changes neither the editor nor the  *)
(* collection.  The equations are stated without division: both sides are  *)
(* multiplied by the display size.                                         *)
C25_MapperFormula ==
  /\ last.op = "getCanvasCoordinates" =>
       LET event == last.result.event
           canvas == last.result.canvas
           point == last.result.point
       IN  /\ canvas.clientWidth > 0 /\ canvas.clientHeight > 0
           /\ point.x * canvas.clientWidth =
                (event.clientX - canvas.left) * canvas.width
           /\ point.y * canvas.clientHeight =
                (event.clientY - canvas.top) * canvas.height
  /\ selectedPoints = <<>> /\ dragPointIndex = Null /\ clippedImages = <<>>

\* The position (30, 20) on a canvas shown at 1.5 x 2 was mapped to (30, 20).
C25_Witness ==
  /\ last.op = "getCanvasCoordinates"
  /\ last.result.canvas.width = 60 /\ last.result.canvas.height = 80
  /\ last.result.event = MouseEvent(30, 20)
  /\ last.result.point = Point(30, 20)

----------------------------------------------------------------------------
(* C26: after a pointer-down that appends a new point the editor is idle,  *)
(* also when the pointer-down arrives while a drag is in progress.         *)
C26_AppendLeavesIdle ==
  [][\A event \in Events :
       (handleMouseDown(event)
          /\ Len(selectedPoints') = Len(selectedPoints) + 1)
         => dragPointIndex' = Null]_vars

----------------------------------------------------------------------------
(* C27: the polygon of a committed region consists only of points placed   *)
(* while the page recorded as its pageIndex was shown.  In SpecPages every *)
(* point is placed while page 0 is shown, so every region, and every       *)
(* extraction under way, is recorded against page 0 and reads page 0.      *)
C27_PointsStayOnTheirPage ==
  /\ \A k \in 1..Len(clippedImages) :
       /\ clippedImages[k].coordinates.pageIndex = 0
       /\ clippedImages[k].imageUrl.src = PageImage(1, 0)
  /\ \A k \in 1..Len(clipCalls) :
       /\ clipCalls[k].currentImageIndex = 0
       /\ clipCalls[k].imageUrl = PageImage(1, 0)

----------------------------------------------------------------------------
(* C28: points added or dragged while a clip awaits the decode of its page *)
(* are not discarded: when the clip succeeds, the points taken off the     *)
(* working list, which the step empties, are exactly the points of the     *)
(* polygon of the new region.  A list that is empty already loses nothing. *)
C28_ClearedPointsAreThePolygon ==
  [][\A k \in 1..MaxRegions, hasContext \in BOOLEAN :
       (imgOnload(k, hasContext) /\ last' = Ran("handleClip", "clipped"))
         => /\ selectedPoints' = <<>>
            /\ selectedPoints # <<>>
                 => clippedImages'[1].points = Spread(selectedPoints)]_vars

----------------------------------------------------------------------------
(* C29: when the collection or the displayed page changes while an earlier *)
(* preview reconstruction is in flight, then once all reconstructions have *)
(* settled the preview shows the reconstruction of the latest page and the *)
(* latest collection: an older one that finishes late does not overwrite   *)
(* the result of a newer one.                                              *)
C29_PreviewIsFresh ==
  (previewMounted /\ previewDeps = <<previewProps>> /\ previewLoads = <<>>)
    => \E order \in Orders(0) \cup Orders(1) \cup Orders(2) :
         /\ Len(order) = Len(SelectSeq(clippedImages,
                          LAMBDA clip : onPage(clip, currentImageIndex)))
         /\ previewUrl =
              reconstructedPage(currentImageIndex, clippedImages, order)

----------------------------------------------------------------------------
(* C30: after any uploads, successful or failed, and page selections, the  *)
(* current page index is a valid index into a page list that is not empty, *)
(* and no clip is started against a missing page raster.                   *)
C30_PageIndexIsValid ==
  /\ Len(images) > 0
       => 0 <= currentImageIndex /\ currentImageIndex < Len(images)
  /\ \A k \in 1..Len(clipCalls) : clipCalls[k].imageUrl # NoImage
----------------------------------------------------------------------------
(* Frame conditions between the point editor and the region collection,    *)
(* checked under SpecFrames.                                                *)

\* The steps of the point editor and those of the gallery and the
\* reconstruction, told apart by the operation the step ran.
EditorOps ==
  {"handleMouseDown", "handleMouseMove", "handleMouseUp", "handleMouseLeave",
   "clearPoints"}

GalleryOps == {"removeClippedImage", "clearAllClippedImages", "reconstruct"}

\* C31: pointer-down, pointer-move, pointer-up, pointer-leave and Clear
\* Points never change the region collection; deleting a region, clearing
\* all regions and every step of a reconstruction never change the working
\* point list or the drag state; no step of a reconstruction changes the
\* region collection.
C31_FrameConditions ==
  [][/\ last'.op \in EditorOps => clippedImages' = clippedImages
     /\ last'.op \in GalleryOps
          => /\ selectedPoints' = selectedPoints
             /\ dragPointIndex' = dragPointIndex
     /\ last'.op = "reconstruct" => clippedImages' = clippedImages]_vars

\* A region has just been deleted and another is left, while the first
\* point of a triangle is held in a drag.
C31_Witness ==
  /\ last = Ran("removeClippedImage", "removed")
  /\ Len(clippedImages) = 1
  /\ Len(selectedPoints) = 3
  /\ dragPointIndex = 0
----------------------------------------------------------------------------
(* Names of the downloaded files, checked under SpecDownloads. *)

\* C32: when all pages are reconstructed, the file saved for page index p
\* is named reconstructed-page-(p+1).jpg, the name the download of the
\* preview of that page uses, also when pages with a lower number have no
\* region and are skipped: a call that ends with downloads saves, for every
\* page that has a reconstruction, a file with that name and that
\* reconstruction as its content.
C32_FilesCarryThePageNumber ==
  [][\A k \in 1..Len(reconstructCalls) :
       \A orders \in [1..Len(reconstructCalls[k].images) -> AllOrders] :
         ( /\ handleReconstructSettles(k, orders, TRUE)
           /\ last'.result = "downloaded" )
         => \A p \in 0..(Len(reconstructCalls[k].images) - 1) :
              LET page == reconstructedPages(reconstructCalls[k], orders)[p + 1]
              IN  page # <<>>
                  => \E d \in (Len(downloads) + 1)..Len(downloads') :
                       downloads'[d] = [download |-> previewDownloadName(p),
                                        href |-> page[1]]]_vars
====
